---------------------------- MODULE Spec2Model ----------------------------
(***************************************************************************)
(* A model of the production-scheduling calendar of src/src/App.tsx:       *)
(* the business-day arithmetic, the "Commercial - 1-Day Shoot" template    *)
(* builder, the entity collection with its add / edit / delete / template  *)
(* / undo handlers, and the weekly bar layout.                             *)
(*                                                                         *)
(* A Date is the number of calendar days since 1970-01-01 (the program     *)
(* only ever uses local midnights).  A "YYYY-MM-DD" string is the triple   *)
(* <<year, month, day>>; the program compares such strings with <= and >=, *)
(* which for fixed-width fields is the lexicographic order of the triple.  *)
(***************************************************************************)
EXTENDS Integers, Sequences, FiniteSets, TLC

VARIABLES
    \* ---- App component state (useState hooks, App.tsx 168-258)
    events,        \* EventItem[]
    lastInsert,    \* string[] | null
    draft,         \* the "Add Project Timeline" form
    edit,          \* the edit modal's draft, or null
    tplKickoff,    \* template control: kickoff date string
    tplPreproDays, \* template control: pre-production length
    tplProject,    \* template control: project name
    uuidCount,     \* how many ids crypto.randomUUID() has handed out
    lastOp,        \* the handler that ran last, with the state it started from
    applied,       \* the ids the latest applyCommercialTemplate call handed out
    undone,        \* undoLastInsert calls since that call (counted up to 2)
    steps,         \* how many handlers have run
    \* ---- calls of the business-day helpers
    bizD, bizN, bizX, bizTrace,
    \* ---- calls of buildCommercialOneDayTemplate
    tplArgs, built,
    \* ---- calls of layoutWeekSegments
    layEvents, layWeekStart, layOut

appVars == <<events, lastInsert, draft, edit, tplKickoff, tplPreproDays,
             tplProject, uuidCount, lastOp, applied, undone, steps>>
bizVars == <<bizD, bizN, bizX, bizTrace>>
tplVars == <<tplArgs, built>>
layVars == <<layEvents, layWeekStart, layOut>>
vars == <<appVars, bizVars, tplVars, layVars>>

\* null, and a non-null value v, of a nullable piece of state
NULL == <<>>
Some(v) == <<v>>

-----------------------------------------------------------------------------
(* Calendar: date-fns format / parseISO / addDays / addMonths, Date.getDay *)

\* parseISO("YYYY-MM-DD"): the day number of a civil date.
parseISO(iso) ==
    LET m  == iso[2]
        y  == IF m <= 2 THEN iso[1] - 1 ELSE iso[1]
        era == y \div 400
        yoe == y - era * 400
        mp  == IF m > 2 THEN m - 3 ELSE m + 9
        doy == (153 * mp + 2) \div 5 + iso[3] - 1
        doe == yoe * 365 + yoe \div 4 - yoe \div 100 + doy
    IN  era * 146097 + doe - 719468

\* format(d, "yyyy-MM-dd"): the civil date of a day number.
toISO(d) ==
    LET z   == d + 719468
        era == z \div 146097
        doe == z - era * 146097
        yoe == (doe - doe \div 1460 + doe \div 36524 - doe \div 146096) \div 365
        doy == doe - (365 * yoe + yoe \div 4 - yoe \div 100)
        mp  == (5 * doy + 2) \div 153
        dd  == doy - (153 * mp + 2) \div 5 + 1
        m   == IF mp < 10 THEN mp + 3 ELSE mp - 9
        y   == yoe + era * 400 + (IF m <= 2 THEN 1 ELSE 0)
    IN  <<y, m, dd>>

NeverSwaps(a, b) == TRUE

\* a <= b on two "YYYY-MM-DD" strings (JavaScript string comparison).
IsoLeq(a, b) ==
    \/ a[1] < b[1]
    \/ a[1] = b[1] /\ a[2] < b[2]
    \/ a[1] = b[1] /\ a[2] = b[2] /\ a[3] <= b[3]

addDays(d, k) == d + k

\* Date.getDay(): Sun = 0 .. Sat = 6 (1970-01-01 was a Thursday).
getDay(d) == (d + 4) % 7

getDaysInMonth(y, m) ==
    IF m = 2
    THEN (IF (y % 4 = 0 /\ y % 100 # 0) \/ y % 400 = 0 THEN 29 ELSE 28)
    ELSE (IF m \in {4, 6, 9, 11} THEN 30 ELSE 31)

\* date-fns addMonths: same day of the target month, clamped to its last day.
addMonths(d, k) ==
    LET c   == toISO(d)
        mi  == (c[1] * 12 + (c[2] - 1)) + k
        y   == mi \div 12
        m   == (mi % 12) + 1
        dim == getDaysInMonth(y, m)
    IN  parseISO(<<y, m, IF c[3] >= dim THEN dim ELSE c[3]>>)

-----------------------------------------------------------------------------
(* Business-day helpers & constraints (App.tsx 28-73)                      *)

isWeekend(d) == getDay(d) = 0 \/ getDay(d) = 6
isMonday(d) == getDay(d) = 1

RECURSIVE ensureWeekday(_)
ensureWeekday(d) == IF isWeekend(d) THEN ensureWeekday(addDays(d, 1)) ELSE d

\* the while loop of addBusinessDays, from (x, added)
RECURSIVE addBusinessDaysLoop(_, _, _)
addBusinessDaysLoop(x, added, n) ==
    IF added < n
    THEN LET x1 == addDays(x, 1)
         IN  addBusinessDaysLoop(x1, IF ~isWeekend(x1) THEN added + 1 ELSE added, n)
    ELSE x

AddCalendarDays(start, n) == addDays(start, IF n > 0 THEN n ELSE 0)

addBusinessDays(start, n) == addBusinessDaysLoop(start, 0, n)

\* the while loop of subBusinessDays, from (x, left)
RECURSIVE subBusinessDaysLoop(_, _)
subBusinessDaysLoop(x, left) ==
    IF left > 0
    THEN LET x1 == addDays(x, -1)
         IN  subBusinessDaysLoop(x1, IF ~isWeekend(x1) THEN left - 1 ELSE left)
    ELSE x

SubCalendarDays(start, n) == addDays(start, IF n > 0 THEN -n ELSE 0)

subBusinessDays(start, n) == subBusinessDaysLoop(start, n)

RECURSIVE skipWeekendForward(_)
skipWeekendForward(x) == IF isWeekend(x) THEN skipWeekendForward(addDays(x, 1)) ELSE x

\* the next calendar day, weekend or not
NextCalendarDay(d) == addDays(d, 1)

nextBusinessDay(d) == skipWeekendForward(addDays(d, 1))

RECURSIVE skipWeekendBackward(_)
skipWeekendBackward(x) == IF isWeekend(x) THEN skipWeekendBackward(addDays(x, -1)) ELSE x

prevBusinessDay(d) == skipWeekendBackward(addDays(d, -1))

RECURSIVE skipWeekendOrMonday(_)
skipWeekendOrMonday(x) ==
    IF isWeekend(x) \/ isMonday(x) THEN skipWeekendOrMonday(addDays(x, 1)) ELSE x

NextDayNotWeekend(d) == skipWeekendForward(addDays(d, 1))

nextValidShootDayAfter(d) == skipWeekendOrMonday(addDays(d, 1))

-----------------------------------------------------------------------------
(* Build "Commercial - 1-Day Shoot" from a kickoff date (App.tsx 80-164)   *)

\* E(title, color, start, end) with the project name of the call
E(projectName, title, color, start, end) ==
    [project |-> projectName, title |-> title, color |-> color,
     start |-> toISO(start), end |-> toISO(end)]

\* Colors
C ==
    [kickoff  |-> "#111827",
     creative |-> "#7c3aed",
     prepro   |-> "#2563eb",
     casting  |-> "#f59e0b",
     lockLoc  |-> "#06b6d4",
     lockCast |-> "#ef4444",
     lockWard |-> "#10b981",
     ppm      |-> "#374151",
     shoot    |-> "#dc2626",
     post     |-> "#16a34a",
     v1       |-> "#0ea5e9",
     v2       |-> "#6366f1",
     v3       |-> "#d946ef",
     finish   |-> "#0891b2",
     final    |-> "#ef4444"]

CreativeEndOneLate(creativeStart) == addBusinessDays(creativeStart, 14)

\* 1) Creative - 14 business days starting at Kickoff
creativeEndOf(creativeStart) == addBusinessDays(creativeStart, 14 - 1)

\* 2) Pre-Production - preproLen business days from its start
preproEndOf(preproStart, preproLen) == addBusinessDays(preproStart, preproLen - 1)

buildCommercialOneDayTemplate(projectName, kickoffISO, preproLen) ==
    LET kickoff         == ensureWeekday(parseISO(kickoffISO))
        creativeStart   == kickoff
        creativeEnd     == creativeEndOf(creativeStart)
        preproStart     == nextBusinessDay(creativeEnd)
        preproEnd       == preproEndOf(preproStart, preproLen)
        shootDay        == nextValidShootDayAfter(preproEnd)
        ppmDay          == prevBusinessDay(shootDay)
        lockCastingDay  == subBusinessDays(shootDay, 6)
        lockWardrobeDay == subBusinessDays(shootDay, 3)
        lockLocationDay == subBusinessDays(shootDay, 5)
        castingStart    == preproStart
        castingEnd      == addBusinessDays(castingStart, 14 - 1)
        postStart       == nextBusinessDay(shootDay)
        postEnd         == addDays(addMonths(shootDay, 1), -1)
        v1              == addBusinessDays(shootDay, 7)
        v2              == addBusinessDays(v1, 5)
        v3              == addBusinessDays(v2, 4)
        finishStart     == subBusinessDays(v3, 2)
        finishEnd       == addBusinessDays(finishStart, 5 - 1)
    IN  << E(projectName, "Project Kickoff", C.kickoff, kickoff, kickoff),
           E(projectName, "Creative", C.creative, creativeStart, creativeEnd),
           E(projectName, "Pre-Production", C.prepro, preproStart, preproEnd),
           E(projectName, "Casting", C.casting, castingStart, castingEnd),
           E(projectName, "Lock Casting", C.lockCast, lockCastingDay, lockCastingDay),
           E(projectName, "Lock Location", C.lockLoc, lockLocationDay, lockLocationDay),
           E(projectName, "Lock Wardrobe", C.lockWard, lockWardrobeDay, lockWardrobeDay),
           E(projectName, "Final PPM", C.ppm, ppmDay, ppmDay),
           E(projectName, "Shoot Day", C.shoot, shootDay, shootDay),
           E(projectName, "Post Production", C.post, postStart, postEnd),
           E(projectName, "V1 Edit Delivery", C.v1, v1, v1),
           E(projectName, "V2 Edit Delivery", C.v2, v2, v2),
           E(projectName, "V3 Edit Delivery", C.v3, v3, v3),
           E(projectName, "Color / Sound / VFX", C.finish, finishStart, finishEnd),
           E(projectName, "Final Delivery", C.final, postEnd, postEnd) >>

-----------------------------------------------------------------------------
(* The App component's handlers (App.tsx 167-280)                          *)

\* String.prototype.trim, on the texts typed into the forms here
Trim(s) == IF s = " " THEN "" ELSE s

\* the ids of a list of events but its last one
IdsButLast(evts) == [i \in 1 .. Len(evts) - 1 |-> evts[i].id]

\* the ids of a list of events, in order
IdsOf(evts) == [i \in 1 .. Len(evts) |-> evts[i].id]

\* lastInsert.includes(id)
Includes(ids, id) == \E i \in 1 .. Len(ids) : ids[i] = id

\* built.map(b => ({ id: crypto.randomUUID(), ... })): the k-th fresh id is
\* firstId + k - 1
toAddOf(builtEvents, firstId) ==
    [i \in 1 .. Len(builtEvents) |->
        [id |-> firstId + i - 1,
         title |-> builtEvents[i].title,
         project |-> builtEvents[i].project,
         color |-> builtEvents[i].color,
         start |-> builtEvents[i].start,
         end |-> builtEvents[i].end]]

UndoDropsFirstOnly(evts, ids) == SelectSeq(evts, LAMBDA e : e.id # ids[1])

\* prev.filter((e) => !lastInsert.includes(e.id))
undoFilter(evts, ids) == SelectSeq(evts, LAMBDA e : ~Includes(ids, e.id))

KeepDraftStart(d) == d.start

\* addEvent: const start = draft.start <= draft.end ? draft.start : draft.end
addEventStart(d) == IF IsoLeq(d.start, d.end) THEN d.start ELSE d.end
\* addEvent: const end = draft.end >= draft.start ? draft.end : draft.start
addEventEnd(d) == IF IsoLeq(d.start, d.end) THEN d.end ELSE d.start

\* saveEdit: const start = edit.start <= edit.end ? edit.start : edit.end
saveEditStart(d) == IF IsoLeq(d.start, d.end) THEN d.start ELSE d.end
\* saveEdit: const end = edit.end >= edit.start ? edit.end : edit.start
saveEditEnd(d) == IF IsoLeq(d.start, d.end) THEN d.end ELSE d.start

\* what a handler leaves behind in lastOp
Op(name, pre, arg) == [op |-> name, pre |-> pre, arg |-> arg]

-----------------------------------------------------------------------------
(* layoutWeekSegments (App.tsx 625-652)                                    *)

\* differenceInCalendarDays(a, b)
differenceInCalendarDays(a, b) == a - b

SegOfUnclippedStart(e, weekStart, weekEnd) ==
    LET s == parseISO(e.start)
        t == parseISO(e.end)
        segEnd == IF t > weekEnd THEN weekEnd ELSE t
    IN  [id |-> e.id, title |-> e.title, project |-> e.project, color |-> e.color,
         segStart |-> s, segEnd |-> segEnd,
         colStart |-> (s - weekStart) + 1,
         colEnd |-> (segEnd - weekStart) + 2,
         lane |-> 0]

\* the body of the first loop: the segment of an event that meets the week
segOf(e, weekStart, weekEnd) ==
    LET s == parseISO(e.start)
        t == parseISO(e.end)
        segStart == IF s < weekStart THEN weekStart ELSE s
        segEnd == IF t > weekEnd THEN weekEnd ELSE t
    IN  [id |-> e.id, title |-> e.title, project |-> e.project, color |-> e.color,
         segStart |-> segStart, segEnd |-> segEnd,
         colStart |-> differenceInCalendarDays(segStart, weekStart) + 1,
         colEnd |-> differenceInCalendarDays(segEnd, weekStart) + 2,
         lane |-> 0]

\* the first loop: skip the events outside the week, push a segment for the others
RECURSIVE clipSegments(_, _, _)
clipSegments(evts, weekStart, weekEnd) ==
    IF evts = <<>> THEN <<>>
    ELSE LET e == Head(evts)
             rest == clipSegments(Tail(evts), weekStart, weekEnd)
         IN  IF parseISO(e.end) < weekStart \/ parseISO(e.start) > weekEnd
             THEN rest
             ELSE <<segOf(e, weekStart, weekEnd)>> \o rest

\* the comparator of segs.sort: by segStart, then by segEnd
compareSegs(a, b) ==
    IF a.segStart - b.segStart # 0 THEN a.segStart - b.segStart
    ELSE a.segEnd - b.segEnd

\* Array.prototype.sort is stable: seg goes behind every segment that does
\* not compare greater than it
RECURSIVE insertSorted(_, _)
insertSorted(seg, sorted) ==
    IF sorted = <<>> THEN <<seg>>
    ELSE IF compareSegs(Head(sorted), seg) <= 0
         THEN <<Head(sorted)>> \o insertSorted(seg, Tail(sorted))
         ELSE <<seg>> \o sorted

RECURSIVE sortSegs(_)
sortSegs(segs) ==
    IF segs = <<>> THEN <<>>
    ELSE insertSorted(segs[Len(segs)], sortSegs(SubSeq(segs, 1, Len(segs) - 1)))

LaneIgnoringEndDay(seg, laneEnds, lane) ==
    IF \E k \in (lane + 1) .. Len(laneEnds) : ~(seg.segStart < laneEnds[k])
    THEN (CHOOSE k \in (lane + 1) .. Len(laneEnds) :
             /\ ~(seg.segStart < laneEnds[k])
             /\ \A j \in (lane + 1) .. (k - 1) : seg.segStart < laneEnds[j]) - 1
    ELSE Len(laneEnds)

AlwaysNewLane(seg, laneEnds, lane) == Len(laneEnds)

\* while (lane < laneEnds.length && seg.segStart <= laneEnds[lane]) lane++
\* (lanes count from 0, laneEnds[lane] is the sequence's element lane + 1)
RECURSIVE firstFreeLane(_, _, _)
firstFreeLane(seg, laneEnds, lane) ==
    IF lane < Len(laneEnds) /\ seg.segStart <= laneEnds[lane + 1]
    THEN firstFreeLane(seg, laneEnds, lane + 1)
    ELSE lane

\* laneEnds[lane] = seg.segEnd, which appends when lane = laneEnds.length
setLaneEnd(laneEnds, lane, segEnd) ==
    IF lane < Len(laneEnds)
    THEN [laneEnds EXCEPT ![lane + 1] = segEnd]
    ELSE Append(laneEnds, segEnd)

\* the second loop, from the segments still to place
RECURSIVE assignLanes(_, _, _)
assignLanes(todo, placed, laneEnds) ==
    IF todo = <<>>
    THEN [segments |-> placed, laneCount |-> Len(laneEnds)]
    ELSE LET seg == Head(todo)
             lane == firstFreeLane(seg, laneEnds, 0)
         IN  assignLanes(Tail(todo),
                         Append(placed, [seg EXCEPT !.lane = lane]),
                         setLaneEnd(laneEnds, lane, seg.segEnd))

layoutWeekSegments(evts, weekStart, weekEnd) ==
    assignLanes(sortSegs(clipSegments(evts, weekStart, weekEnd)), <<>>, <<>>)

-----------------------------------------------------------------------------
(* Values the variable groups hold while another component is exercised    *)

IdleApp ==
    /\ events = <<>> /\ lastInsert = NULL /\ edit = NULL
    /\ draft = NULL /\ tplKickoff = NULL /\ tplPreproDays = 0
    /\ tplProject = "" /\ uuidCount = 0 /\ lastOp = NULL /\ steps = 0
    /\ applied = {} /\ undone = 0
IdleBiz == bizD = 0 /\ bizN = 0 /\ bizX = 0 /\ bizTrace = <<>>
IdleTpl == tplArgs = NULL /\ built = NULL
IdleLay == layEvents = <<>> /\ layWeekStart = 0 /\ layOut = NULL

-----------------------------------------------------------------------------
(* The App component: every sequence of at most MaxSteps handler calls,    *)
(* from the empty collection, with the form inputs drawn from small sets.  *)

MaxSteps == 5
MaxUuids == 31

\* the pre-production selector offers PreproMin .. PreproMin + PreproChoices - 1
PreproMin == 15
PreproChoices == 11

Today == <<2024, 1, 10>>
DraftDates == {Today, <<2024, 2, 1>>}
DraftTitles == {"Prep"}
EditTitles == {"Renamed"}
KickoffChoices == {<<2024, 1, 13>>}
AppPreproLens == {PreproMin}
ProjectChoices == {"Varo Fall TVC"}

\* the timelines the user reaches for: the first and the last of the list
TargetIds(evts) == {evts[i].id : i \in {1, Len(evts)} \cap DOMAIN evts}

Init ==
    /\ events = <<>>
    /\ lastInsert = NULL
    /\ draft = [id |-> 0, title |-> "", project |-> "", color |-> "#2563eb",
                start |-> Today, end |-> Today]
    /\ edit = NULL
    /\ tplKickoff = Today
    /\ tplPreproDays = 21
    /\ tplProject = ""
    /\ uuidCount = 0
    /\ lastOp = Op("init", NULL, NULL)
    /\ applied = {}
    /\ undone = 0
    /\ steps = 0
    /\ IdleBiz /\ IdleTpl /\ IdleLay

\* the run goes on while fewer than MaxSteps handlers have run
CanStep == steps < MaxSteps

\* every handler call is one step
Step(name, pre, arg) ==
    /\ steps' = steps + 1
    /\ lastOp' = Op(name, pre, arg)
    /\ applied' = IF name = "applyCommercialTemplate"
                  THEN (uuidCount + 1) .. uuidCount' ELSE applied
    /\ undone' = IF name = "applyCommercialTemplate" THEN 0
                 ELSE IF name = "undoLastInsert" /\ undone < 2 THEN undone + 1
                 ELSE undone
    /\ UNCHANGED <<bizVars, tplVars, layVars>>

\* onChange of the add form's Title, Start and End inputs
SetDraftTitle(t) ==
    /\ CanStep
    /\ draft' = [draft EXCEPT !.title = t]
    /\ Step("onChange", NULL, NULL)
    /\ UNCHANGED <<events, lastInsert, edit, tplKickoff, tplPreproDays, tplProject, uuidCount>>

SetDraftStart(d) ==
    /\ CanStep
    /\ draft' = [draft EXCEPT !.start = d]
    /\ Step("onChange", NULL, NULL)
    /\ UNCHANGED <<events, lastInsert, edit, tplKickoff, tplPreproDays, tplProject, uuidCount>>

SetDraftEnd(d) ==
    /\ CanStep
    /\ draft' = [draft EXCEPT !.end = d]
    /\ Step("onChange", NULL, NULL)
    /\ UNCHANGED <<events, lastInsert, edit, tplKickoff, tplPreproDays, tplProject, uuidCount>>

AddEvent ==
    /\ CanStep
    /\ IF Trim(draft.title) = ""
       THEN UNCHANGED <<events, draft, uuidCount>>
       ELSE /\ uuidCount + 1 <= MaxUuids
            /\ uuidCount' = uuidCount + 1
            /\ events' = Append(events,
                   [draft EXCEPT !.id = uuidCount + 1,
                                 !.start = addEventStart(draft),
                                 !.end = addEventEnd(draft)])
            /\ draft' = [draft EXCEPT !.title = ""]
    /\ Step("addEvent", Some(events), Some(draft))
    /\ UNCHANGED <<lastInsert, edit, tplKickoff, tplPreproDays, tplProject>>

RemoveEvent(id) ==
    /\ CanStep
    /\ events' = SelectSeq(events, LAMBDA e : e.id # id)
    /\ Step("removeEvent", NULL, NULL)
    /\ UNCHANGED <<lastInsert, draft, edit, tplKickoff, tplPreproDays, tplProject, uuidCount>>

\* confirmed is the answer to confirm("Delete all events?")
ClearAll(confirmed) ==
    /\ CanStep
    /\ events' = IF confirmed THEN <<>> ELSE events
    /\ Step("clearAll", NULL, NULL)
    /\ UNCHANGED <<lastInsert, draft, edit, tplKickoff, tplPreproDays, tplProject, uuidCount>>

HandleBarClick(id) ==
    /\ CanStep
    /\ \E i \in DOMAIN events :
          /\ events[i].id = id
          /\ \A j \in 1 .. (i - 1) : events[j].id # id
          /\ edit' = Some(events[i])
    /\ Step("handleBarClick", NULL, NULL)
    /\ UNCHANGED <<events, lastInsert, draft, tplKickoff, tplPreproDays, tplProject, uuidCount>>

\* onChange of the modal's Title, Start and End inputs: prev && { ...prev, f: v }
SetEditTitle(t) ==
    /\ CanStep
    /\ edit # NULL
    /\ edit' = Some([edit[1] EXCEPT !.title = t])
    /\ Step("onChange", NULL, NULL)
    /\ UNCHANGED <<events, lastInsert, draft, tplKickoff, tplPreproDays, tplProject, uuidCount>>

SetEditStart(d) ==
    /\ CanStep
    /\ edit # NULL
    /\ edit' = Some([edit[1] EXCEPT !.start = d])
    /\ Step("onChange", NULL, NULL)
    /\ UNCHANGED <<events, lastInsert, draft, tplKickoff, tplPreproDays, tplProject, uuidCount>>

SetEditEnd(d) ==
    /\ CanStep
    /\ edit # NULL
    /\ edit' = Some([edit[1] EXCEPT !.end = d])
    /\ Step("onChange", NULL, NULL)
    /\ UNCHANGED <<events, lastInsert, draft, tplKickoff, tplPreproDays, tplProject, uuidCount>>

\* the Shift -1d / Shift +1d buttons
ShiftEdit(k) ==
    /\ CanStep
    /\ edit # NULL
    /\ edit' = Some([edit[1] EXCEPT
                        !.start = toISO(addDays(parseISO(edit[1].start), k)),
                        !.end = toISO(addDays(parseISO(edit[1].end), k))])
    /\ Step("shift", NULL, NULL)
    /\ UNCHANGED <<events, lastInsert, draft, tplKickoff, tplPreproDays, tplProject, uuidCount>>

\* Cancel, or a click on the backdrop
CancelEdit ==
    /\ CanStep
    /\ edit # NULL
    /\ edit' = NULL
    /\ Step("cancel", NULL, NULL)
    /\ UNCHANGED <<events, lastInsert, draft, tplKickoff, tplPreproDays, tplProject, uuidCount>>

SaveEdit ==
    /\ CanStep
    /\ edit # NULL
    /\ events' = [i \in DOMAIN events |->
                    IF events[i].id = edit[1].id
                    THEN [edit[1] EXCEPT !.start = saveEditStart(edit[1]),
                                         !.end = saveEditEnd(edit[1])]
                    ELSE events[i]]
    /\ edit' = NULL
    /\ Step("saveEdit", Some(events), edit)
    /\ UNCHANGED <<lastInsert, draft, tplKickoff, tplPreproDays, tplProject, uuidCount>>

DeleteEdit ==
    /\ CanStep
    /\ edit # NULL
    /\ events' = SelectSeq(events, LAMBDA ev : ev.id # edit[1].id)
    /\ edit' = NULL
    /\ Step("deleteEdit", NULL, NULL)
    /\ UNCHANGED <<lastInsert, draft, tplKickoff, tplPreproDays, tplProject, uuidCount>>

\* onChange of the template controls
SetTplKickoff(k) ==
    /\ CanStep
    /\ tplKickoff' = k
    /\ Step("onChange", NULL, NULL)
    /\ UNCHANGED <<events, lastInsert, draft, edit, tplPreproDays, tplProject, uuidCount>>

SetTplPreproDays(n) ==
    /\ CanStep
    /\ tplPreproDays' = n
    /\ Step("onChange", NULL, NULL)
    /\ UNCHANGED <<events, lastInsert, draft, edit, tplKickoff, tplProject, uuidCount>>

SetTplProject(name) ==
    /\ CanStep
    /\ tplProject' = name
    /\ Step("onChange", NULL, NULL)
    /\ UNCHANGED <<events, lastInsert, draft, edit, tplKickoff, tplPreproDays, uuidCount>>

ApplyCommercialTemplate ==
    /\ CanStep
    /\ LET name  == IF Trim(tplProject) # "" THEN Trim(tplProject) ELSE "Commercial Project"
           toAdd == toAddOf(buildCommercialOneDayTemplate(name, tplKickoff, tplPreproDays),
                            uuidCount + 1)
       IN  /\ uuidCount + Len(toAdd) <= MaxUuids
           /\ uuidCount' = uuidCount + Len(toAdd)
           /\ events' = events \o toAdd
           /\ lastInsert' = Some(IdsOf(toAdd))
    /\ Step("applyCommercialTemplate", Some(events), NULL)
    /\ UNCHANGED <<draft, edit, tplKickoff, tplPreproDays, tplProject>>

UndoLastInsert ==
    /\ CanStep
    /\ IF lastInsert = NULL
       THEN UNCHANGED <<events, lastInsert>>
       ELSE /\ events' = undoFilter(events, lastInsert[1])
            /\ lastInsert' = NULL
    /\ Step("undoLastInsert",
            IF lastOp.op = "applyCommercialTemplate" THEN lastOp.pre ELSE NULL,
            Some(events))
    /\ UNCHANGED <<draft, edit, tplKickoff, tplPreproDays, tplProject, uuidCount>>

Next ==
    \/ \E t \in DraftTitles : SetDraftTitle(t)
    \/ \E d \in DraftDates : SetDraftStart(d)
    \/ \E d \in DraftDates : SetDraftEnd(d)
    \/ AddEvent
    \/ \E id \in TargetIds(events) : RemoveEvent(id)
    \/ \E confirmed \in BOOLEAN : ClearAll(confirmed)
    \/ \E id \in TargetIds(events) : HandleBarClick(id)
    \/ \E t \in EditTitles : SetEditTitle(t)
    \/ \E d \in DraftDates : SetEditStart(d)
    \/ \E d \in DraftDates : SetEditEnd(d)
    \/ \E k \in {-1, 1} : ShiftEdit(k)
    \/ CancelEdit
    \/ SaveEdit
    \/ DeleteEdit
    \/ \E k \in KickoffChoices : SetTplKickoff(k)
    \/ \E n \in AppPreproLens : SetTplPreproDays(n)
    \/ \E name \in ProjectChoices : SetTplProject(name)
    \/ ApplyCommercialTemplate
    \/ UndoLastInsert

Spec == Init /\ [][Next]_vars

\* the draft an addEvent or saveEdit call worked on, and the list it started from
OpDraft == lastOp.arg[1]
OpPre == lastOp.pre[1]
StartsAfterEnd(d) == parseISO(d.start) > parseISO(d.end)
HasId(evts, id) == \E i \in DOMAIN evts : evts[i].id = id

\* C3: applying the template and then undoing the last insert leaves the
\* collection exactly as it was before the template was applied.
C3_ApplyThenUndoRestores ==
    (lastOp.op = "undoLastInsert" /\ lastOp.pre # NULL) => events = OpPre

\* apply then undo on a collection that already held a timeline
C3_Witness ==
    /\ lastOp.op = "undoLastInsert"
    /\ lastOp.pre # NULL
    /\ OpPre # <<>>
    /\ events = OpPre

\* C4: every entity of the collection has start <= end (as dates).
C4_StartLeqEnd ==
    \A i \in DOMAIN events : parseISO(events[i].start) <= parseISO(events[i].end)

\* an edit whose draft had start after end has just been saved over its entity
C4_Witness ==
    /\ lastOp.op = "saveEdit"
    /\ StartsAfterEnd(OpDraft)
    /\ HasId(OpPre, OpDraft.id)
    /\ HasId(events, OpDraft.id)

\* C5: a draft with start after end is stored with the two bounds swapped and
\* every other field as drafted, by addEvent (which turns down a blank title
\* only) and by saveEdit (over the entity being edited) alike.
C5_InvertedDraftIsSwapped ==
    /\ (lastOp.op = "addEvent" /\ StartsAfterEnd(OpDraft)) =>
          IF Trim(OpDraft.title) = ""
          THEN events = OpPre
          ELSE /\ Len(events) = Len(OpPre) + 1
               /\ SubSeq(events, 1, Len(OpPre)) = OpPre
               /\ ~HasId(OpPre, events[Len(events)].id)
               /\ events[Len(events)] =
                     [OpDraft EXCEPT !.id = events[Len(events)].id,
                                     !.start = OpDraft.end, !.end = OpDraft.start]
    /\ (lastOp.op = "saveEdit" /\ StartsAfterEnd(OpDraft)) =>
          /\ Len(events) = Len(OpPre)
          /\ \A i \in DOMAIN events :
                events[i] = IF OpPre[i].id = OpDraft.id
                            THEN [OpDraft EXCEPT !.start = OpDraft.end,
                                                 !.end = OpDraft.start]
                            ELSE OpPre[i]

\* an inverted draft saved by the edit modal, with a new title, was stored swapped
C5_Witness ==
    /\ lastOp.op = "saveEdit"
    /\ StartsAfterEnd(OpDraft)
    /\ OpDraft.title = "Renamed"
    /\ \E i \in DOMAIN events :
          /\ events[i].id = OpDraft.id
          /\ events[i].title = "Renamed"
          /\ events[i].start = OpDraft.end
          /\ events[i].end = OpDraft.start

\* the list an undoLastInsert call started from, and the ids it is to remove:
\* those of the latest apply when no undo has run since, none otherwise
UndoPre == lastOp.arg[1]
UndoTargets == IF undone = 1 THEN applied ELSE {}

\* C13: undoLastInsert removes exactly the entities (still present) whose ids
\* the most recent applyCommercialTemplate assigned and leaves every other
\* entity as it was, whatever ran in between; after two applies only the
\* second's records go; an undo with nothing to undo (before any apply, or
\* after an undo) changes nothing.
C13_UndoRemovesLastInsertOnly ==
    lastOp.op = "undoLastInsert" =>
        /\ events = SelectSeq(UndoPre, LAMBDA e : e.id \notin UndoTargets)
        /\ lastInsert = NULL

\* two applies, then an undo: the first apply's records are still there, the
\* second's are gone
C13_Witness ==
    /\ lastOp.op = "undoLastInsert"
    /\ undone = 1
    /\ \E i \in DOMAIN UndoPre : UndoPre[i].id \in applied
    /\ \E i \in DOMAIN events :
          /\ events[i].title = "Shoot Day"
          /\ \A id \in applied : events[i].id < id
    /\ \A i \in DOMAIN events : events[i].id \notin applied

-----------------------------------------------------------------------------
(* The business-day helpers, called on every date of a window and every    *)
(* n up to MaxN, alone or one on the result of another.                    *)

BizSpan == 14
MaxN == 7
MaxCalls == 2

BizFirstDay == parseISO(<<2024, 2, 24>>)
BizDays == BizFirstDay .. (BizFirstDay + BizSpan - 1)

InitBiz ==
    /\ bizD \in BizDays
    /\ bizN \in 0 .. MaxN
    /\ bizX = bizD
    /\ bizTrace = <<>>
    /\ IdleApp /\ IdleTpl /\ IdleLay

CallAddBusinessDays ==
    /\ Len(bizTrace) < MaxCalls
    /\ bizX' = addBusinessDays(bizX, bizN)
    /\ bizTrace' = Append(bizTrace, "addBusinessDays")
    /\ UNCHANGED <<bizD, bizN, appVars, tplVars, layVars>>

CallSubBusinessDays ==
    /\ Len(bizTrace) < MaxCalls
    /\ bizX' = subBusinessDays(bizX, bizN)
    /\ bizTrace' = Append(bizTrace, "subBusinessDays")
    /\ UNCHANGED <<bizD, bizN, appVars, tplVars, layVars>>

CallNextValidShootDayAfter ==
    /\ Len(bizTrace) < MaxCalls
    /\ bizX' = nextValidShootDayAfter(bizX)
    /\ bizTrace' = Append(bizTrace, "nextValidShootDayAfter")
    /\ UNCHANGED <<bizD, bizN, appVars, tplVars, layVars>>

NextBiz ==
    \/ CallAddBusinessDays
    \/ CallSubBusinessDays
    \/ CallNextValidShootDayAfter

SpecBiz == InitBiz /\ [][NextBiz]_vars

\* Saturday, Sunday (and Monday), read off the day of the week.
IsSatOrSun(d) == getDay(d) \in {0, 6}
IsSatSunOrMon(d) == getDay(d) \in {0, 1, 6}

\* C6: nextValidShootDayAfter(d) is strictly after d, is not a Saturday, a
\* Sunday or a Monday, and every day strictly between d and it is one of those.
C6_NextValidShootDay ==
    bizTrace = <<"nextValidShootDayAfter">> =>
        /\ bizX > bizD
        /\ ~IsSatSunOrMon(bizX)
        /\ \A k \in (bizD + 1) .. (bizX - 1) : IsSatSunOrMon(k)

\* a Friday: the result has to jump over Saturday, Sunday and Monday
C6_Witness ==
    /\ bizTrace = <<"nextValidShootDayAfter">>
    /\ getDay(bizD) = 5
    /\ bizX = bizD + 4

\* C7: for a weekday d and n >= 0, addBusinessDays(subBusinessDays(d, n), n) = d.
C7_RoundTrip ==
    (bizTrace = <<"subBusinessDays", "addBusinessDays">> /\ ~IsSatOrSun(bizD))
        => bizX = bizD

\* a round trip of at least five business days, which crosses a weekend
C7_Witness ==
    /\ bizTrace = <<"subBusinessDays", "addBusinessDays">>
    /\ ~IsSatOrSun(bizD)
    /\ bizN >= 5
    /\ bizX = bizD

\* C8: for a weekday d, addBusinessDays(d, n) is a non-weekend day with exactly
\* n non-weekend days in (d, result], and addBusinessDays(d, 0) is d itself.
C8_AddBusinessDays ==
    (bizTrace = <<"addBusinessDays">> /\ ~IsSatOrSun(bizD)) =>
        /\ bizX >= bizD
        /\ ~IsSatOrSun(bizX)
        /\ Cardinality({k \in (bizD + 1) .. bizX : ~IsSatOrSun(k)}) = bizN
        /\ (bizN = 0 => bizX = bizD)

\* six business days from a Friday: two weekends are stepped over, and the
\* result is the Monday ten days later
C8_Witness ==
    /\ bizTrace = <<"addBusinessDays">>
    /\ getDay(bizD) = 5 /\ bizN = 6 /\ bizX = bizD + 10

-----------------------------------------------------------------------------
(* buildCommercialOneDayTemplate, called with every kickoff date of a      *)
(* window, every pre-production length the selector offers and two names.  *)

TplSpan == 14

TplFirstDay == parseISO(<<2023, 12, 2>>)
TplKickoffs == {toISO(d) : d \in TplFirstDay .. (TplFirstDay + TplSpan - 1)}
PreproLens == {PreproMin + i : i \in 0 .. (PreproChoices - 1)}
TplNames == {"Varo Fall TVC", "Commercial Project"}

InitTpl ==
    /\ tplArgs \in [projectName : TplNames, kickoffISO : TplKickoffs,
                    preproLen : PreproLens]
    /\ built = NULL
    /\ IdleApp /\ IdleBiz /\ IdleLay

CallBuildTemplate ==
    /\ built = NULL
    /\ built' = buildCommercialOneDayTemplate(tplArgs.projectName,
                                              tplArgs.kickoffISO, tplArgs.preproLen)
    /\ UNCHANGED <<tplArgs, appVars, bizVars, layVars>>

NextTpl == CallBuildTemplate

SpecTpl == InitTpl /\ [][NextTpl]_vars

\* the record of a phase in the built list, with its dates as day numbers
PhaseNamed(title) == CHOOSE i \in 1 .. Len(built) : built[i].title = title
PhaseStart(title) == parseISO(built[PhaseNamed(title)].start)
PhaseEnd(title) == parseISO(built[PhaseNamed(title)].end)
BusinessDaysIn(a, b) == Cardinality({k \in a .. b : ~IsSatOrSun(k)})
FirstBusinessDayFrom(a) ==
    CHOOSE x \in a .. (a + 7) : ~IsSatOrSun(x) /\ \A k \in a .. (x - 1) : IsSatOrSun(k)
FirstShootableDayFrom(a) ==
    CHOOSE x \in a .. (a + 7) : ~IsSatSunOrMon(x) /\ \A k \in a .. (x - 1) : IsSatSunOrMon(k)
LastBusinessDayUntil(b) ==
    CHOOSE x \in (b - 7) .. b : ~IsSatOrSun(x) /\ \A k \in (x + 1) .. b : IsSatOrSun(k)

\* C9: Kickoff is the kickoff date pushed off the weekend; Creative covers
\* exactly 14 business days from Kickoff; Pre-Production starts on the next
\* business day after Creative and covers exactly preproLen business days;
\* Shoot Day is the first day after Pre-Production that is no Saturday, Sunday
\* or Monday; Final PPM is the business day just before Shoot Day.
C9_TemplateChain ==
    built # NULL =>
        /\ PhaseStart("Project Kickoff") = FirstBusinessDayFrom(parseISO(tplArgs.kickoffISO))
        /\ PhaseEnd("Project Kickoff") = PhaseStart("Project Kickoff")
        /\ PhaseStart("Creative") = PhaseStart("Project Kickoff")
        /\ ~IsSatOrSun(PhaseEnd("Creative"))
        /\ BusinessDaysIn(PhaseStart("Creative"), PhaseEnd("Creative")) = 14
        /\ PhaseStart("Pre-Production") = FirstBusinessDayFrom(PhaseEnd("Creative") + 1)
        /\ ~IsSatOrSun(PhaseEnd("Pre-Production"))
        /\ BusinessDaysIn(PhaseStart("Pre-Production"), PhaseEnd("Pre-Production"))
               = tplArgs.preproLen
        /\ PhaseStart("Shoot Day") = FirstShootableDayFrom(PhaseEnd("Pre-Production") + 1)
        /\ PhaseEnd("Shoot Day") = PhaseStart("Shoot Day")
        /\ PhaseStart("Final PPM") = LastBusinessDayUntil(PhaseStart("Shoot Day") - 1)
        /\ PhaseEnd("Final PPM") = PhaseStart("Final PPM")

\* a Saturday kickoff and the longest pre-production: Kickoff moves to Monday
C9_Witness ==
    /\ built # NULL
    /\ getDay(parseISO(tplArgs.kickoffISO)) = 6
    /\ tplArgs.preproLen = 25
    /\ PhaseStart("Project Kickoff") = parseISO(tplArgs.kickoffISO) + 2

\* C10 (as claimed): 15 records in the documented order, all tagged with the
\* project name, and no two records have the same color.
C10_FifteenDistinctColors ==
    built # NULL =>
        /\ [i \in 1 .. Len(built) |-> built[i].title] =
             << "Project Kickoff", "Creative", "Pre-Production", "Casting",
                "Lock Casting", "Lock Location", "Lock Wardrobe", "Final PPM",
                "Shoot Day", "Post Production", "V1 Edit Delivery",
                "V2 Edit Delivery", "V3 Edit Delivery", "Color / Sound / VFX",
                "Final Delivery" >>
        /\ \A i \in 1 .. Len(built) : built[i].project = tplArgs.projectName
        /\ \A i, j \in 1 .. Len(built) : i # j => built[i].color # built[j].color

\* the dates of record i of the built list
BuiltStart(i) == parseISO(built[i].start)
BuiltEnd(i) == parseISO(built[i].end)
\* the day one calendar month after d, on the calendar alone: the same day of
\* the next month, or that month's last day when it is shorter
SameDayNextMonth(d) ==
    CHOOSE x \in (d + 28) .. (d + 31) :
        LET a == toISO(d)
            b == toISO(x)
        IN  /\ b[2] = (a[2] % 12) + 1
            /\ \/ b[3] = a[3]
               \/ b[3] < a[3] /\ toISO(x + 1)[3] = 1

\* C14 (as claimed): the start and the end of each of the 15 records is a
\* non-weekend day, and Shoot Day is never a Monday.
C14_NoDateOnWeekend ==
    built # NULL =>
        /\ \A i \in DOMAIN built : ~IsSatOrSun(BuiltStart(i)) /\ ~IsSatOrSun(BuiltEnd(i))
        /\ getDay(PhaseStart("Shoot Day")) # 1

\* C14 (amended): every start and end is a non-weekend day except the end of
\* Post Production and the Final Delivery day, which are the calendar day
\* before Shoot Day plus one calendar month, weekend or not; Shoot Day is
\* never a Monday.
C14_NoWeekendButMonthWindow ==
    built # NULL =>
        /\ \A i \in DOMAIN built :
              /\ built[i].title # "Final Delivery" => ~IsSatOrSun(BuiltStart(i))
              /\ built[i].title \notin {"Final Delivery", "Post Production"}
                    => ~IsSatOrSun(BuiltEnd(i))
        /\ getDay(PhaseStart("Shoot Day")) # 1
        /\ PhaseEnd("Post Production") = SameDayNextMonth(PhaseStart("Shoot Day")) - 1
        /\ PhaseStart("Final Delivery") = PhaseEnd("Post Production")
        /\ PhaseEnd("Final Delivery") = PhaseEnd("Post Production")

\* a template whose Final Delivery falls on a Sunday
C14_Witness ==
    /\ built # NULL
    /\ getDay(PhaseStart("Final Delivery")) = 0
    /\ getDay(PhaseEnd("Post Production")) = 0
    /\ \A i \in DOMAIN built :
          built[i].title \notin {"Final Delivery", "Post Production"}
              => ~IsSatOrSun(BuiltStart(i)) /\ ~IsSatOrSun(BuiltEnd(i))

-----------------------------------------------------------------------------
(* layoutWeekSegments, called for two consecutive Sunday-start weeks on    *)
(* every list of at most MaxEnts timelines with start <= end whose dates   *)
(* lie before, on the two edges of and after the first week.               *)

MaxEnts == 3

LayFirstSunday == parseISO(<<2024, 1, 7>>)
LayWeekStarts == {LayFirstSunday, LayFirstSunday + 7}
LayDays == {LayFirstSunday + k : k \in {-1, 0, 6, 7, 8}}
LayRanges == {r \in LayDays \X LayDays : r[1] <= r[2]}

\* the timelines of a list of ranges, with ids 1, 2, ... in list order
EntitiesOf(ranges) ==
    [i \in DOMAIN ranges |->
        [id |-> i, title |-> "Prep", project |-> "Varo Fall TVC", color |-> "#2563eb",
         start |-> toISO(ranges[i][1]), end |-> toISO(ranges[i][2])]]

RangeLists == UNION {[1 .. n -> LayRanges] : n \in 0 .. MaxEnts}

InitLay ==
    /\ layEvents \in {EntitiesOf(rs) : rs \in RangeLists}
    /\ layWeekStart \in LayWeekStarts
    /\ layOut = NULL
    /\ IdleApp /\ IdleBiz /\ IdleTpl

\* MonthCells: weekEnd = week[6] = addDays(weekStart, 6)
CallLayoutWeekSegments ==
    /\ layOut = NULL
    /\ layOut' = Some(layoutWeekSegments(layEvents, layWeekStart, addDays(layWeekStart, 6)))
    /\ UNCHANGED <<layEvents, layWeekStart, appVars, bizVars, tplVars>>

NextLay == CallLayoutWeekSegments

SpecLay == InitLay /\ [][NextLay]_vars

Segments == layOut[1].segments
ColumnsOverlap(a, b) == a.colStart < b.colEnd /\ b.colStart < a.colEnd
\* how many of the input timelines cover day d
Covering(d) ==
    Cardinality({i \in DOMAIN layEvents :
                    parseISO(layEvents[i].start) <= d /\ d <= parseISO(layEvents[i].end)})
WeekDays == layWeekStart .. (layWeekStart + 6)
MaxCovering == CHOOSE n \in 0 .. Len(layEvents) :
                  /\ \A d \in WeekDays : Covering(d) <= n
                  /\ (n = 0 \/ \E d \in WeekDays : Covering(d) = n)

\* C1: no two returned segments that share a lane overlap in their column
\* ranges [colStart, colEnd).
C1_NoOverlapInLane ==
    layOut # NULL =>
        \A i, j \in DOMAIN Segments :
            (i # j /\ Segments[i].lane = Segments[j].lane)
                => ~ColumnsOverlap(Segments[i], Segments[j])

\* three segments: two meet on a day and sit in different lanes, the third
\* starts the day after the first ends and shares its lane
C1_Witness ==
    /\ layOut # NULL
    /\ \E i, j, k \in DOMAIN Segments :
          /\ ColumnsOverlap(Segments[i], Segments[j])
          /\ Segments[i].lane # Segments[j].lane
          /\ Segments[k].lane = Segments[i].lane
          /\ k # i
          /\ Segments[i].segEnd < Segments[k].segStart

\* C2: laneCount is the largest number of timelines covering one day of the week.
C2_LaneCountIsMinimal ==
    layOut # NULL => layOut[1].laneCount = MaxCovering

\* three timelines, two lanes: a lane is used again
C2_Witness ==
    /\ layOut # NULL
    /\ Len(Segments) = 3
    /\ layOut[1].laneCount = 2
    /\ MaxCovering = 2

\* the days of the week that timeline i of the input covers
VisibleDays(i) ==
    {d \in WeekDays : parseISO(layEvents[i].start) <= d /\ d <= parseISO(layEvents[i].end)}
SegmentsOf(i) == {k \in DOMAIN Segments : Segments[k].id = layEvents[i].id}
ContainsWeek(i) ==
    /\ parseISO(layEvents[i].start) <= layWeekStart
    /\ parseISO(layEvents[i].end) >= layWeekStart + 6
SingleDayOnWeekStart(i) ==
    /\ parseISO(layEvents[i].start) = layWeekStart
    /\ parseISO(layEvents[i].end) = layWeekStart

\* C11: a timeline that meets the week gets exactly one segment, clipped to
\* the week, with 1 <= colStart < colEnd <= 8 and colEnd - colStart the number
\* of its days in the week (1 and 8 when it contains the week, 1 and 2 when it
\* is the single day weekStart); a timeline that misses the week gets none.
C11_OneClippedSegment ==
    layOut # NULL =>
        \A i \in DOMAIN layEvents :
            IF VisibleDays(i) = {}
            THEN SegmentsOf(i) = {}
            ELSE /\ Cardinality(SegmentsOf(i)) = 1
                 /\ \A k \in SegmentsOf(i) :
                       /\ \A d \in VisibleDays(i) : Segments[k].segStart <= d /\ d <= Segments[k].segEnd
                       /\ Segments[k].segStart \in VisibleDays(i)
                       /\ Segments[k].segEnd \in VisibleDays(i)
                       /\ 1 <= Segments[k].colStart
                       /\ Segments[k].colStart < Segments[k].colEnd
                       /\ Segments[k].colEnd <= 8
                       /\ Segments[k].colEnd - Segments[k].colStart = Cardinality(VisibleDays(i))
                       /\ Segments[k].colStart = Segments[k].segStart - layWeekStart + 1
                       /\ ContainsWeek(i) => (Segments[k].colStart = 1 /\ Segments[k].colEnd = 8)
                       /\ SingleDayOnWeekStart(i) =>
                             (Segments[k].colStart = 1 /\ Segments[k].colEnd = 2)

\* a timeline from before the week to after it, the single day weekStart, and
\* a timeline that ends before the week, laid out together
C11_Witness ==
    /\ layOut # NULL
    /\ \E i, j, m \in DOMAIN layEvents :
          /\ ContainsWeek(i) /\ parseISO(layEvents[i].start) < layWeekStart
          /\ \E k \in SegmentsOf(i) : Segments[k].colStart = 1 /\ Segments[k].colEnd = 8
          /\ SingleDayOnWeekStart(j)
          /\ \E k \in SegmentsOf(j) : Segments[k].colStart = 1 /\ Segments[k].colEnd = 2
          /\ VisibleDays(m) = {} /\ SegmentsOf(m) = {}
    /\ Len(Segments) = 2

\* C12 (as claimed): a segment that starts earlier than another never has a
\* greater lane number.
C12_EarlierStartLowerLane ==
    layOut # NULL =>
        \A i, j \in DOMAIN Segments :
            Segments[i].segStart < Segments[j].segStart
                => Segments[i].lane <= Segments[j].lane

\* C12 (amended): the segments come out ordered by start, the first one is in
\* lane 0, and a segment is in a lane above 0 only when every lower lane holds
\* a segment that starts no later and still runs on the day it starts.
C12_LowerLanesAreBusy ==
    layOut # NULL =>
        /\ \A i, j \in DOMAIN Segments :
              i < j => Segments[i].segStart <= Segments[j].segStart
        /\ Segments # <<>> => Segments[1].lane = 0
        /\ \A j \in DOMAIN Segments :
              \A l \in 0 .. (Segments[j].lane - 1) :
                  \E i \in DOMAIN Segments :
                      /\ i # j
                      /\ Segments[i].lane = l
                      /\ Segments[i].segStart <= Segments[j].segStart
                      /\ Segments[j].segStart <= Segments[i].segEnd

\* a long segment sits in lane 1 beside a one-day segment of lane 0, and a
\* segment that starts later takes lane 0 again
C12_Witness ==
    /\ layOut # NULL
    /\ \E i, j, k \in DOMAIN Segments :
          /\ Segments[k].lane = 0
          /\ Segments[k].segStart = Segments[i].segStart
          /\ Segments[i].lane = 1
          /\ Segments[i].segStart < Segments[j].segStart
          /\ Segments[j].lane = 0

=============================================================================
